---- MODULE Spec2Model ----
(***************************************************************************)
(* MiniVec<T: Clone> (src/src/lib.rs): a growable vector over a raw heap   *)
(* block.  The struct fields capacity, size and buffer are the state; the  *)
(* block the buffer points at is the sequence `slots`.  new, push (with    *)
(* grow), remove, Index::index, IndexMut::index_mut and Drop::drop are the *)
(* actions.                                                                *)
(*                                                                         *)
(* The code dereferences raw pointers without checking them, so some calls *)
(* have undefined behaviour.  Each such access is a nondeterministic       *)
(* choice: an access outside the block either faults (the process dies:   *)
(* phase = "crashed") or goes unnoticed, a read of a slot that was never   *)
(* written yields an arbitrary value.  The first store through a null      *)
(* buffer faults where the null page traps; where it does not, the memory  *)
(* at address 0 serves as the block from then on.  usize arithmetic keeps  *)
(* its width: with overflow checks (debug profile) an overflow panics,     *)
(* without them (release profile) it wraps.                                *)
(***************************************************************************)
EXTENDS Integers, Sequences, FiniteSets, TLC

\* ---------------------------------------------------------------- bounds
\* Width of usize in the model (64 in the build); only its wrap-around matters.
UsizeBits == 5
\* Growth is disabled once doubling would exceed this capacity.
MaxCapacity == 4
\* The same, for the runs that only push.
MaxPushCapacity == 10
\* How far below usize::MAX a wrapped size may be driven by further removes.
MaxWrapDepth == 1

\* ------------------------------------------------------ program constants
DEFAULT_GROWTH == 2
DEFAULT_FIRST_CAP == 2

UsizeMax == 2^UsizeBits - 1
IsizeMax == 2^(UsizeBits - 1) - 1

\* Element values.  The code never looks at an element (it stores, clones
\* and moves them), so two distinguishable values tell every slot from its
\* neighbours.
Values == {1, 2}
\* Content of a slot that was allocated but never written.
Uninit == 0
\* Index arguments: every slot of the largest block, one past it, and
\* usize::MAX (whose `as isize` conversion is -1).
IndexInputs == (0 .. MaxCapacity) \cup {UsizeMax}

VARIABLES
    capacity,        \* MiniVec.capacity
    size,            \* MiniVec.size
    buffer,          \* MiniVec.buffer: "None", "Null" (Some(null)), "Ptr" (Some(block))
    slots,           \* the memory buffer addresses: slot i is slots[i + 1]
    heapBlocks,      \* blocks obtained from the allocator and not released
    phase,           \* "live", "dropped", "crashed"
    overflowChecks,  \* build profile: arithmetic overflow panics (TRUE) or wraps
    needsDrop,       \* the element type T has drop glue (String) or not (i32)
    onlyPushes,      \* no call other than push was made since new()
    pushed,          \* the values of the push calls that returned, while onlyPushes
    relocated,       \* elements moved by the growth steps so far, while onlyPushes
    last             \* the last call: its arguments, its outcome, what it returned

vars == <<capacity, size, buffer, slots, heapBlocks, phase, overflowChecks,
          needsDrop, onlyPushes, pushed, relocated, last>>

\* `n as isize`
AsIsize(n) == IF n > IsizeMax THEN n - (UsizeMax + 1) ELSE n

\* usize subtraction / addition without overflow checks
WrapSub(a, b) == (a - b + UsizeMax + 1) % (UsizeMax + 1)
WrapAdd(a, b) == (a + b) % (UsizeMax + 1)

\* Whether buffer.offset(off) is one of the slots the buffer addresses.
InBlock(buf, slts, off) == buf # "None" /\ off >= 0 /\ off < Len(slts)

\* What reading / cloning the slot at offset off yields when it does not
\* fault: the stored value, or `garbage` for a slot never written or for
\* memory outside the block.
ReadSlot(buf, slts, off, garbage) ==
    IF InBlock(buf, slts, off) /\ slts[off + 1] # Uninit
    THEN slts[off + 1]
    ELSE garbage

\* Whether ReadSlot yields the arbitrary value rather than a stored one.
ReadsGarbage(buf, slts, off) ==
    IF InBlock(buf, slts, off) THEN slts[off + 1] = Uninit ELSE TRUE

\* Whether touching (cloning, dropping) the content at offset off can fault:
\* any access outside the block, and, for element types with drop glue, a
\* slot holding no value.
CanFault(buf, slts, off, drops) ==
    IF InBlock(buf, slts, off) THEN drops /\ slts[off + 1] = Uninit ELSE TRUE

\* pastSize: the call read or dropped the content of a slot at a position
\* >= size.  underflow: the call evaluated `self.size - 1` with size 0.
NoCall == [op |-> "new", index |-> 0, value |-> Uninit, alloc |-> "none",
           outcome |-> "ok", ret |-> Uninit, pastSize |-> FALSE,
           underflow |-> FALSE]

\* MiniVec::new, for either build profile and either kind of element type.
Init ==
    /\ capacity = 0
    /\ size = 0
    /\ buffer = "None"
    /\ slots = <<>>
    /\ heapBlocks = 0
    /\ phase = "live"
    /\ overflowChecks \in BOOLEAN
    /\ needsDrop \in BOOLEAN
    /\ onlyPushes = TRUE
    /\ pushed = <<>>
    /\ relocated = 0
    /\ last = NoCall

\* ------------------------------------------------------------------ grow
\* newCap unwritten slots.
fresh(newCap) == [i \in 1 .. newCap |-> Uninit]

\* Growth by one slot per step.
grownCapacityByOne(cap) == cap + 1

\* Growth by a fixed chunk per step.
grownCapacityLinear(cap) == cap + DEFAULT_FIRST_CAP

\* `self.capacity *= DEFAULT_GROWTH` (line 115).
grownCapacity(cap) == cap * DEFAULT_GROWTH

\* MiniVec::grow on the fields (cap, buf) and the memory slts.  allocFails is
\* the allocator's answer: alloc / realloc then return null, and the result
\* is stored unchecked.  realloc keeps the old block's slots and adds
\* unwritten ones; a failed realloc leaves the old block allocated and no
\* longer referenced.  realloc of a null buffer acts as a fresh allocation,
\* and when it fails the buffer still addresses the memory at address 0.
grow(cap, buf, slts, blocks, allocFails) ==
    IF buf # "None"
    THEN LET newCap == grownCapacity(cap) IN
         [capacity |-> newCap,
          buffer |-> IF allocFails THEN "Null" ELSE "Ptr",
          slots |-> IF (buf = "Ptr") = (~allocFails)
                    THEN slts \o fresh(newCap - Len(slts))
                    ELSE fresh(newCap),
          heapBlocks |-> IF ~allocFails /\ buf = "Null" THEN blocks + 1 ELSE blocks]
    ELSE [capacity |-> DEFAULT_FIRST_CAP,
          buffer |-> IF allocFails THEN "Null" ELSE "Ptr",
          slots |-> fresh(DEFAULT_FIRST_CAP),
          heapBlocks |-> IF allocFails THEN blocks ELSE blocks + 1]

\* ------------------------------------------------------------------ push
\* A growth test that fires one push early.
pushGrowsEarly(sz, cap) == sz + 1 >= cap

\* A growth test that also fires whenever size exceeds capacity.
pushGrowsAtOrAbove(sz, cap) == sz >= cap

\* The guard of line 147.
pushGrows(sz, cap) == sz = cap

\* The store of line 153, `*(buffer.offset(size as isize)) = new_element`:
\* the block after it (a store outside the block leaves the block as it is).
pushStore(buf, slts, sz, new_element) ==
    IF InBlock(buf, slts, AsIsize(sz))
    THEN [slts EXCEPT ![AsIsize(sz) + 1] = new_element]
    ELSE slts

\* MiniVec::push(new_element).  `fault` says whether an invalid access traps.
push(new_element, allocFails, fault) ==
    /\ phase = "live"
    /\ IF pushGrows(size, capacity) THEN TRUE ELSE ~allocFails
    /\ LET grows == pushGrows(size, capacity)
           g == IF grows
                THEN grow(capacity, buffer, slots, heapBlocks, allocFails)
                ELSE [capacity |-> capacity, buffer |-> buffer, slots |-> slots,
                      heapBlocks |-> heapBlocks]
           \* the first store through a null buffer
           nullStore == g.buffer = "Null" /\ buffer # "Null"
           \* the assignment drops the slot's previous content, then writes
           canFault == IF nullStore THEN TRUE
                       ELSE CanFault(g.buffer, g.slots, AsIsize(size), needsDrop)
           crashes == fault /\ canFault
           panics == ~crashes /\ size = UsizeMax /\ overflowChecks
           outcome == IF crashes THEN "crash" ELSE IF panics THEN "panic" ELSE "ok"
       IN  /\ IF fault THEN canFault ELSE TRUE
           /\ capacity' = g.capacity
           /\ buffer' = g.buffer
           /\ heapBlocks' = g.heapBlocks
           /\ slots' = IF crashes THEN g.slots
                       ELSE pushStore(g.buffer, g.slots, size, new_element)
           /\ size' = IF outcome = "ok" THEN WrapAdd(size, 1) ELSE size
           /\ phase' = IF crashes THEN "crashed" ELSE "live"
           /\ pushed' = IF onlyPushes /\ outcome = "ok"
                        THEN Append(pushed, new_element)
                        ELSE pushed
           \* realloc moves the old block's elements to the new one
           /\ relocated' = IF ~onlyPushes THEN 0
                           ELSE IF grows /\ buffer = "Ptr" /\ ~allocFails
                           THEN relocated + size
                           ELSE relocated
           /\ last' = [op |-> "push", index |-> 0, value |-> new_element,
                       alloc |-> IF ~grows THEN "none"
                                 ELSE IF allocFails THEN "failed" ELSE "ok",
                       outcome |-> outcome, ret |-> Uninit,
                       \* the assignment drops what slot `size` held
                       pastSize |-> needsDrop, underflow |-> FALSE]
    /\ UNCHANGED <<overflowChecks, needsDrop, onlyPushes>>

\* ---------------------------------------------------------------- remove
\* The loop of lines 172-177 on a block that holds every slot it touches:
\* n times `*start = (*start.offset(1)).clone(); start = start.offset(1)`.
RECURSIVE shiftLoop(_, _, _)
shiftLoop(slts, start, n) ==
    IF n = 0
    THEN slts
    ELSE shiftLoop([slts EXCEPT ![start + 1] = slts[start + 2]], start + 1, n - 1)

\* The number of iterations of `for _ in index..hi`.
rangeLen(index, hi) == IF hi > index THEN hi - index ELSE 0

\* MiniVec::remove(index).  There is no comparison of index with size: the
\* only checks are buffer.unwrap() and, with overflow checks, `self.size - 1`.
\* `fault` says whether an invalid access traps, `garbage` is what an invalid
\* read yields otherwise.
remove(index, fault, garbage) ==
    /\ phase = "live"
    /\ IF size <= capacity THEN TRUE ELSE size > UsizeMax - MaxWrapDepth
    /\ LET off == AsIsize(index)
           unwrapPanics == buffer = "None"
           removed == ReadSlot(buffer, slots, off, garbage)
           readCanFault == CanFault(buffer, slots, off, needsDrop)
           readFaults == fault /\ readCanFault
           subPanics == size = 0 /\ overflowChecks
           n == rangeLen(index, WrapSub(size, 1))
           allIn == InBlock(buffer, slots, off) /\ InBlock(buffer, slots, off + n)
           \* a loop of more than isize::MAX steps leaves every mapping
           runsAway == n > IsizeMax
           loopCanFault ==
               IF n = 0 THEN FALSE
               ELSE {k \in 0 .. n : CanFault(buffer, slots, off + k, needsDrop)} # {}
           loopFaults == n > 0 /\ (runsAway \/ (fault /\ loopCanFault))
           outcome == IF unwrapPanics THEN "panic"
                      ELSE IF readFaults THEN "crash"
                      ELSE IF subPanics THEN "panic"
                      ELSE IF loopFaults THEN "crash"
                      ELSE "ok"
       IN  /\ IF ~fault THEN TRUE
              ELSE IF unwrapPanics THEN FALSE
              ELSE IF readCanFault THEN TRUE
              ELSE IF subPanics THEN FALSE
              ELSE loopCanFault
           /\ IF garbage # 1
              THEN ~unwrapPanics /\ ReadsGarbage(buffer, slots, off)
              ELSE TRUE
           /\ slots' = IF outcome = "ok" /\ n > 0 /\ allIn
                       THEN shiftLoop(slots, off, n)
                       ELSE slots
           /\ size' = IF outcome = "ok" THEN WrapSub(size, 1) ELSE size
           /\ phase' = IF outcome = "crash" THEN "crashed" ELSE "live"
           /\ last' = [op |-> "remove", index |-> index, value |-> Uninit,
                       alloc |-> "none", outcome |-> outcome,
                       ret |-> IF outcome = "ok" THEN removed ELSE Uninit,
                       \* line 169 reads slot index whatever size is
                       pastSize |-> ~unwrapPanics /\ index >= size,
                       \* line 174 is reached with size 0
                       underflow |-> ~unwrapPanics /\ ~readFaults /\ size = 0]
    /\ onlyPushes' = FALSE
    /\ pushed' = <<>>
    /\ relocated' = 0
    /\ UNCHANGED <<capacity, buffer, heapBlocks, overflowChecks, needsDrop>>

\* -------------------------------------------------------------- indexing
\* A bounds check that lets index = size through.
indexTooBigOffByOne(index, sz) == index > sz

\* The check of lines 190 and 200.
indexTooBig(index, sz) == index >= sz

\* Index::index(index), and the read of the reference it returns.
Index_index(index, fault, garbage) ==
    /\ phase = "live"
    /\ LET off == AsIsize(index)
           panics == indexTooBig(index, size) \/ buffer = "None"
           canFault == ~panics /\ CanFault(buffer, slots, off, needsDrop)
           crashes == fault /\ canFault
           outcome == IF panics THEN "panic" ELSE IF crashes THEN "crash" ELSE "ok"
       IN  /\ IF fault THEN canFault ELSE TRUE
           /\ IF garbage # 1 THEN ~panics /\ ReadsGarbage(buffer, slots, off) ELSE TRUE
           /\ phase' = IF crashes THEN "crashed" ELSE "live"
           /\ last' = [op |-> "index", index |-> index, value |-> Uninit,
                       alloc |-> "none", outcome |-> outcome,
                       ret |-> IF outcome = "ok"
                               THEN ReadSlot(buffer, slots, off, garbage)
                               ELSE Uninit,
                       pastSize |-> FALSE, underflow |-> FALSE]
    /\ onlyPushes' = FALSE
    /\ pushed' = <<>>
    /\ relocated' = 0
    /\ UNCHANGED <<capacity, size, buffer, slots, heapBlocks, overflowChecks, needsDrop>>

\* IndexMut::index_mut(index) and the assignment through the reference it
\* returns, `vector[index] = value`: the old content is dropped, then written.
IndexMut_index_mut(index, value, fault) ==
    /\ phase = "live"
    /\ LET off == AsIsize(index)
           panics == indexTooBig(index, size) \/ buffer = "None"
           canFault == ~panics /\ CanFault(buffer, slots, off, needsDrop)
           crashes == fault /\ canFault
           outcome == IF panics THEN "panic" ELSE IF crashes THEN "crash" ELSE "ok"
       IN  /\ IF fault THEN canFault ELSE TRUE
           /\ slots' = IF outcome = "ok" /\ InBlock(buffer, slots, off)
                       THEN [slots EXCEPT ![off + 1] = value]
                       ELSE slots
           /\ phase' = IF crashes THEN "crashed" ELSE "live"
           /\ last' = [op |-> "index_mut", index |-> index, value |-> value,
                       alloc |-> "none", outcome |-> outcome, ret |-> Uninit,
                       pastSize |-> FALSE, underflow |-> FALSE]
    /\ onlyPushes' = FALSE
    /\ pushed' = <<>>
    /\ relocated' = 0
    /\ UNCHANGED <<capacity, size, buffer, heapBlocks, overflowChecks, needsDrop>>

\* ------------------------------------------------------------------ drop
\* Drop::drop: a Some buffer is handed to dealloc with the layout of
\* `capacity` slots (releasing a null pointer releases nothing); the
\* elements themselves are not dropped.
drop ==
    /\ phase = "live"
    /\ phase' = "dropped"
    /\ heapBlocks' = IF buffer = "Ptr" THEN heapBlocks - 1 ELSE heapBlocks
    /\ last' = [op |-> "drop", index |-> 0, value |-> Uninit, alloc |-> "none",
                outcome |-> "ok", ret |-> Uninit, pastSize |-> FALSE,
                underflow |-> FALSE]
    /\ onlyPushes' = FALSE
    /\ pushed' = <<>>
    /\ relocated' = 0
    /\ UNCHANGED <<capacity, size, buffer, slots, overflowChecks, needsDrop>>

\* ------------------------------------------------------- specifications
\* The bound on growth: a push that would double the capacity past maxCap
\* is not taken.
growthWithin(maxCap) ==
    IF pushGrows(size, capacity) /\ buffer # "None"
    THEN grownCapacity(capacity) <= maxCap
    ELSE TRUE

PushCall ==
    \E v \in Values, allocFails \in BOOLEAN, fault \in BOOLEAN :
        growthWithin(MaxCapacity) /\ push(v, allocFails, fault)

RemoveCall ==
    \E i \in IndexInputs, fault \in BOOLEAN, g \in Values : remove(i, fault, g)

IndexCall ==
    \E i \in IndexInputs, fault \in BOOLEAN, g \in Values : Index_index(i, fault, g)

IndexMutCall ==
    \E i \in IndexInputs, v \in Values, fault \in BOOLEAN : IndexMut_index_mut(i, v, fault)

Next == PushCall \/ RemoveCall \/ IndexCall \/ IndexMutCall \/ drop

\* Any sequence of calls on one container.
Spec == Init /\ [][Next]_vars

PushOnlyCall ==
    \E v \in Values, allocFails \in BOOLEAN, fault \in BOOLEAN :
        growthWithin(MaxPushCapacity) /\ push(v, allocFails, fault)

\* Push calls only, on a fresh container.
SpecPushOnly == Init /\ [][PushOnlyCall]_vars

\* ================================================================ claims
\* The element at logical position j of the block slts (Uninit when the
\* block has no such slot or the slot was never written).
At(slts, j) == IF j >= 0 /\ j < Len(slts) THEN slts[j + 1] ELSE Uninit

\* The doubling schedule 2, 4, 8, ...: its smallest value >= n, from c on.
RECURSIVE scheduleFrom(_, _)
scheduleFrom(c, n) == IF c >= n THEN c ELSE scheduleFrom(c * DEFAULT_GROWTH, n)
ScheduleCapacity(n) == IF n = 0 THEN 0 ELSE scheduleFrom(DEFAULT_FIRST_CAP, n)

\* C1: remove(index) with index >= size() takes the fatal invalid-usage
\* path: it panics, returns no value, and leaves size, capacity and every
\* stored element as they were.
C1_RemoveOutOfRangeIsFatal ==
    [][(last'.op = "remove" /\ last'.index >= size)
          => /\ last'.outcome = "panic"
             /\ last'.ret = Uninit
             /\ size' = size
             /\ capacity' = capacity
             /\ slots' = slots]_vars

\* C2: size <= capacity in every state reachable from new() by push, remove,
\* index reads and index assignments, whatever values and indices are passed.
C2_SizeLeCapacity == size <= capacity

\* C3: remove(index) with index < size() returns the value that was at
\* index, decreases size by exactly 1, leaves capacity and the elements
\* before index unchanged, and moves each element after index down by one.
C3_RemoveValidIndex ==
    [][(last'.op = "remove" /\ last'.index < size)
          => /\ last'.outcome = "ok"
             /\ last'.ret # Uninit
             /\ last'.ret = At(slots, last'.index)
             /\ size' = size - 1
             /\ capacity' = capacity
             /\ \A j \in 0 .. size - 1 :
                    /\ j < last'.index => At(slots', j) = At(slots, j)
                    /\ j > last'.index => At(slots', j - 1) = At(slots, j)]_vars

\* C4: push(v), when the allocation it needs succeeds, increases size by
\* exactly 1, and the element at index old size then equals v.
C4_PushAppends ==
    [][(last'.op = "push" /\ last'.alloc # "failed")
          => /\ last'.outcome = "ok"
             /\ size' = size + 1
             /\ At(slots', size) = last'.value]_vars

\* C5: every push, growing or not, leaves the elements at indices below the
\* old size unchanged and readable at their indices; after pushing
\* v0 .. v(N-1) from empty, index i yields vi for every i < N.
C5_PushPreservesElements ==
    [][/\ last'.op = "push"
          => \A j \in 0 .. size - 1 : At(slots', j) = At(slots, j)
       /\ (onlyPushes' /\ phase' = "live")
          => \A i \in 0 .. Len(pushed') - 1 : At(slots', i) = pushed'[i + 1]]_vars

\* C6: after N push calls on a fresh container and nothing else, size() is N
\* and capacity() is 0 for N = 0, else the smallest of 2, 4, 8, ... >= N.
C6_PushOnlySchedule ==
    (onlyPushes /\ phase = "live")
        => /\ size = Len(pushed)
           /\ capacity = ScheduleCapacity(Len(pushed))

\* C6 witness: five pushes from empty have grown the block three times.
C6_Witness ==
    /\ onlyPushes
    /\ phase = "live"
    /\ Len(pushed) = 5
    /\ size = 5
    /\ capacity = DEFAULT_FIRST_CAP * DEFAULT_GROWTH * DEFAULT_GROWTH

\* C7: an index read or an index assignment with index >= size() panics and
\* leaves size, capacity and all elements unchanged, in a fresh container
\* and in one emptied by removes alike.
C7_IndexOutOfRangePanics ==
    [][(last'.op \in {"index", "index_mut"} /\ last'.index >= size)
          => /\ last'.outcome = "panic"
             /\ last'.ret = Uninit
             /\ UNCHANGED <<capacity, size, buffer, slots>>]_vars

\* C7 witness: an assignment at index 0 of a container that was emptied by
\* removes, and still holds its block, has panicked.
C7_Witness ==
    /\ last.op = "index_mut"
    /\ last.index = 0
    /\ last.outcome = "panic"
    /\ size = 0
    /\ buffer = "Ptr"
    /\ At(slots, 0) # Uninit

\* C8: with index < size(), reading the index changes nothing, and assigning
\* v at the index changes that element alone: size, capacity and the other
\* elements stay, and the element at the index is v afterwards.
C8_ValidIndexAccess ==
    [][/\ (last'.op = "index" /\ last'.index < size)
          => /\ last'.outcome = "ok"
             /\ UNCHANGED <<capacity, size, buffer, slots>>
       /\ (last'.op = "index_mut" /\ last'.index < size)
          => /\ last'.outcome = "ok"
             /\ UNCHANGED <<capacity, size, buffer>>
             /\ At(slots', last'.index) = last'.value
             /\ \A j \in 0 .. size - 1 :
                    j # last'.index => At(slots', j) = At(slots, j)]_vars

\* C9: push(v) followed by remove(size() - 1) returns v, restores the size
\* from before the push, and leaves the elements stored before it unchanged.
C9_PushRemoveRoundTrip ==
    [][/\ last'.op = "push"
          => /\ last'.outcome = "ok"
             /\ size' = size + 1
             /\ \A j \in 0 .. size - 1 : At(slots', j) = At(slots, j)
       /\ (last.op = "push" /\ last.outcome = "ok" /\ size >= 1
             /\ last'.op = "remove" /\ last'.index = size - 1)
          => /\ last'.outcome = "ok"
             /\ last'.ret = last.value
             /\ size' = size - 1
             /\ \A j \in 0 .. size - 2 : At(slots', j) = At(slots, j)]_vars

\* C10: when the allocation or the resize a push needs cannot be satisfied,
\* push fails fatally: no null buffer is recorded as the storage, nothing is
\* written through it, and size is not incremented.
C10_AllocationFailureIsFatal ==
    [][(last'.op = "push" /\ last'.alloc = "failed")
          => /\ last'.outcome # "ok"
             /\ buffer' # "Null"
             /\ size' = size]_vars

\* C11: whenever an allocation exists it is the one block the buffer
\* addresses and capacity is its slot count (so the layouts grow hands to
\* realloc and drop hands to dealloc are the block's own); destruction
\* releases an existing block exactly once and releases nothing otherwise.
C11_LayoutAndSingleRelease ==
    /\ heapBlocks >= 0
    /\ heapBlocks > 0 => (heapBlocks = 1 /\ buffer = "Ptr" /\ Len(slots) = capacity)
    /\ (phase = "live" /\ buffer = "Ptr") => (heapBlocks = 1 /\ Len(slots) = capacity)
    /\ phase = "dropped" => heapBlocks = 0

\* C12: new() yields capacity 0, size 0 and no storage, nothing is allocated
\* before the first push, and while the container lives storage is absent
\* exactly when capacity is 0.
C12_StorageAbsentIffCapacityZero ==
    /\ last.op = "new" => (capacity = 0 /\ size = 0 /\ buffer = "None" /\ heapBlocks = 0)
    /\ phase = "live" => ((capacity = 0) <=> (buffer # "Ptr"))
    /\ (phase = "live" /\ capacity = 0) => heapBlocks = 0

\* C13: over N push calls from an empty container the growth steps relocate
\* at most 2N elements in total.
C13_RelocationsLinear == onlyPushes => relocated <= 2 * Len(pushed)

\* C13 witness: five pushes from empty, whose two reallocations moved 2 and
\* then 4 elements.
C13_Witness ==
    /\ onlyPushes
    /\ phase = "live"
    /\ Len(pushed) = 5
    /\ relocated = 6

\* C14: no call reads, clones or drops the content of a slot at a position
\* >= size: push stores into slot size without touching what it held, and
\* remove reads only positions index .. size - 1.
C14_NoAccessPastSize ==
    [][last'.op \in {"push", "remove", "index", "index_mut"}
          => ~last'.pastSize]_vars

\* C16: remove never evaluates size - 1 or size -= 1 with size 0: called on an
\* empty container, with or without a block, it does not underflow size,
\* reads no slot and leaves size at 0.
C16_RemoveNeverUnderflows ==
    [][(last'.op = "remove" /\ size = 0)
          => /\ ~last'.underflow
             /\ ~last'.pastSize
             /\ size' = 0]_vars

\* C15: capacity and the allocation change only in a push made when
\* size = capacity: every other push, every remove and every index read or
\* assignment leaves them as they were, and capacity never decreases.
C15_CapacityChangesOnlyOnFullPush ==
    [][/\ capacity' >= capacity
       /\ (\/ last'.op \in {"remove", "index", "index_mut"}
           \/ (last'.op = "push" /\ size # capacity))
          => /\ UNCHANGED <<capacity, buffer, heapBlocks>>
             /\ Len(slots') = Len(slots)]_vars

\* C15 witness: after removes, a push into a block of capacity 4 that had a
\* free slot has filled it, and the capacity is still 4.
C15_Witness ==
    /\ ~onlyPushes
    /\ last.op = "push"
    /\ last.alloc = "none"
    /\ last.outcome = "ok"
    /\ size = 4
    /\ capacity = 4
    /\ buffer = "Ptr"

\* C17: in every state reachable by any mix of calls, capacity is 0 or a
\* power of two 2^k with k >= 1.
C17_CapacityPowerOfTwo ==
    capacity = 0 \/ \E k \in 1 .. UsizeBits : capacity = 2^k

\* C17 witness: an index assignment into a container that grew to capacity
\* 4 and was then emptied down to one element by removes.
C17_Witness ==
    /\ last.op = "index_mut"
    /\ last.outcome = "ok"
    /\ capacity = 4
    /\ size = 1
    /\ buffer = "Ptr"

====
